---- MODULE Spec2Model ----
(***************************************************************************)
(* Model of scripts/data_generator.py: the generator of a bipartite        *)
(* entity / document / link dataset, sharded round-robin over CSV files.   *)
(*                                                                         *)
(* A Python dict is a sequence of items [src, dsts] in insertion order, a  *)
(* list or tuple is a sequence, a str is a string, an open file is the     *)
(* sequence of the rows written to it plus a closed flag.  An uncaught     *)
(* AssertionError or ValueError ends the script: pc = "failed".            *)
(***************************************************************************)
EXTENDS Integers, Sequences, FiniteSets, TLC

VARIABLES
    pc,                         \* position in the script
    num_connected_components,   \* number of loop iterations requested
    iter,                       \* loop iterations completed
    num_entities,               \* sampled size of the current component
    adj,                        \* make_connected_component's result
    adj_assigned,               \* assign_entity_ids' first result
    links,                      \* insert_documents' first result
    next_entity_offset,
    next_doc_offset,
    documents_writer,
    entities_writer,
    links_writer,
    call,                       \* history: the last call and its arguments
    submitted                   \* history: the records add_entry accepted

vars == <<pc, num_connected_components, iter, num_entities, adj, adj_assigned,
          links, next_entity_offset, next_doc_offset, documents_writer,
          entities_writer, links_writer, call, submitted>>

----------------------------------------------------------------------------
(* Bounds of the model *)

\* largest number of components of a run
MaxComponents == 3
\* largest sampled component size of a run
MaxSample == 2
\* largest document count of an edge in a run of several components
MaxDocs == 2
\* largest size given to make_connected_component on its own
MaxNodes == 6
\* adjacency inputs: node indices 0..MaxNodeId, at most MaxKeys items
MaxNodeId == 1
MaxKeys == 1
\* adjacency inputs: at most MaxEdges destinations in total
MaxEdges == 2
\* largest start offset given to a function on its own
MaxOffset == 2
\* BatchWriter on its own: shard counts 1..MaxFiles, MaxRecords accepted rows
MaxFiles == 3
MaxRecords == 4

----------------------------------------------------------------------------
(* Program constants *)

num_documents_files == 2
num_entities_files == 2
num_links_files == 2

documents_header == <<"ID", "label", "date">>
entities_header == <<"ID", "label">>
links_header == <<"entity ID", "document ID">>

\* pvals with a tenth moved from the last bucket to bucket 0
pvals_bucket0 == <<1, 3, 3, 2, 1, 0>>

\* the probabilities of the document count, in tenths, bucket 0 first
pvals == <<0, 3, 3, 2, 1, 1>>

----------------------------------------------------------------------------
(* Helpers *)

Max(a, b) == IF a >= b THEN a ELSE b

RECURSIVE Sum(_)
Sum(s) == IF s = <<>> THEN 0 ELSE Head(s) + Sum(Tail(s))

RECURSIVE Flatten(_)
Flatten(ss) == IF ss = <<>> THEN <<>> ELSE Head(ss) \o Flatten(Tail(ss))

\* the elements of a sequence
Range(s) == {s[i] : i \in DOMAIN s}

\* the orders in which iterating a Python set can yield its elements
IterationOrders(S) ==
    {s \in [1..Cardinality(S) -> S] : \A i, j \in 1..Cardinality(S) : i # j => s[i] # s[j]}

\* the (src, dst) pairs of an adjacency dict, in the order the nested loops
\* "for src, dsts in adj.items(): for d in dsts" visit them
Edges(a) == Flatten([i \in DOMAIN a |-> [j \in DOMAIN a[i].dsts |-> <<a[i].src, a[i].dsts[j]>>]])

\* random.randint(a, b): any integer of the closed interval
randint(a, b) == a..b

----------------------------------------------------------------------------
(* make_connected_component *)

\* attach_range with max_node = node
attach_range_self(node) == randint(0, node)

\* the values random.randint(min_node, max_node) can return for a node
attach_range(node) == randint(0, node - 1)

\* the outcomes of the random attachment choices of nodes 1..num_nodes-1
AttachmentChoices(num_nodes) ==
    {rnd \in [1..(num_nodes - 1) -> 0..(num_nodes - 1)] :
        \A node \in 1..(num_nodes - 1) : rnd[node] \in attach_range(node)}

\* connections, with rnd[node] the value random.randint returned for node
make_connected_component(num_nodes, rnd) ==
    [i \in 1..num_nodes |->
        [src |-> i - 1, dsts |-> IF i - 1 >= 1 THEN <<rnd[i - 1]>> ELSE <<>>]]

----------------------------------------------------------------------------
(* make_entity_id, make_document_id, assign_entity_ids *)

make_entity_id(node_id) == "e-" \o ToString(node_id)

make_document_id(doc_index) == "d-" \o ToString(doc_index)

RECURSIVE SeqMax(_, _)
SeqMax(s, m) == IF s = <<>> THEN m ELSE SeqMax(Tail(s), Max(Head(s), m))

\* max_node_id after the loop over adj.items()
max_node_id(a) == SeqMax(Flatten([i \in DOMAIN a |-> <<a[i].src>> \o a[i].dsts]), -1)

\* the pair (adj_assigned, max_node_id + 1) the function returns
assign_entity_ids(a, offset) ==
    [adj_assigned |->
        [i \in DOMAIN a |->
            [src |-> make_entity_id(a[i].src + offset),
             dsts |-> [j \in DOMAIN a[i].dsts |-> make_entity_id(a[i].dsts[j] + offset)]]],
     next |-> max_node_id(a) + 1]

----------------------------------------------------------------------------
(* insert_documents *)

\* np.random.multinomial(n, p): the count vectors of n trials over the
\* buckets of p; a bucket of probability 0 is never drawn
multinomial(n, p) ==
    {v \in [1..Len(p) -> 0..n] : Sum(v) = n /\ \A i \in 1..Len(p) : p[i] = 0 => v[i] = 0}

\* the elementwise comparison "> 0" of a numpy array
gt0(v) == [i \in DOMAIN v |-> v[i] > 0]

\* np.argmax of a boolean array: the 0-based index of its first True,
\* and 0 when there is none
argmax(b) ==
    IF \E i \in DOMAIN b : b[i]
    THEN (CHOOSE i \in DOMAIN b : b[i] /\ \A j \in 1..(i - 1) : ~b[j]) - 1
    ELSE 0

\* the document counts one multinomial draw can give
num_docs_outcomes == {argmax(gt0(v)) : v \in multinomial(1, pvals)}

\* DocLinks without the increment of current_doc_index
DocLinks_one_id(e, current_doc_index, num_docs) ==
    Flatten([k \in 1..num_docs |->
        << <<e[1], make_document_id(current_doc_index)>>,
           <<e[2], make_document_id(current_doc_index)>> >>])

\* the links of the num_docs documents inserted on edge e
DocLinks(e, current_doc_index, num_docs) ==
    Flatten([k \in 1..num_docs |->
        << <<e[1], make_document_id(current_doc_index + k - 1)>>,
           <<e[2], make_document_id(current_doc_index + k - 1)>> >>])

RECURSIVE InsertLoop(_, _, _, _)
InsertLoop(edges, draws, current_doc_index, acc) ==
    IF edges = <<>>
    THEN [links |-> acc, current_doc_index |-> current_doc_index, raised |-> FALSE]
    ELSE IF ~(Head(draws) > 0)
    THEN [links |-> acc, current_doc_index |-> current_doc_index, raised |-> TRUE]
    ELSE InsertLoop(Tail(edges), Tail(draws), current_doc_index + Head(draws),
                    acc \o DocLinks(Head(edges), current_doc_index, Head(draws)))

\* (links, current_doc_index), with draws[e] the num_docs sampled for the
\* e-th edge visited; raised when "assert num_docs > 0" fails
insert_documents(a, doc_id_offset, draws) == InsertLoop(Edges(a), draws, doc_id_offset, <<>>)

----------------------------------------------------------------------------
(* make_entities, make_documents *)

\* the set entity_ids built by make_entities
entity_ids(a) == UNION {{a[i].src} \cup Range(a[i].dsts) : i \in DOMAIN a}

\* the list of (entity ID, label), with order the iteration order of the set
make_entities(a, order) == [i \in DOMAIN order |-> <<order[i], "Entity " \o order[i]>>]

\* the set document_ids built by make_documents
document_ids(ls) == {ls[i][2] : i \in DOMAIN ls}

\* the list of (document ID, label, date), with order the iteration order
make_documents(ls, order) ==
    [i \in DOMAIN order |-> <<order[i], "Document " \o order[i], "02/01/2023">>]

----------------------------------------------------------------------------
(* BatchWriter *)

RECURSIVE join(_, _)
join(sep, row) ==
    IF row = <<>> THEN ""
    ELSE IF Len(row) = 1 THEN row[1]
    ELSE row[1] \o sep \o join(sep, Tail(row))

_make_row(row) == join(",", row) \o "\n"

\* a writer that was not constructed yet
NoWriter == [header |-> <<>>, num_files |-> 0, file_idx_next_row |-> 0, fps |-> <<>>]

\* __init__: num_files open files, each holding the header row
BatchWriter(num_files, header) ==
    [header |-> header,
     num_files |-> num_files,
     file_idx_next_row |-> 0,
     fps |-> [i \in 1..num_files |-> [rows |-> <<_make_row(header)>>, closed |-> FALSE]]]

\* add_entry raises: the assert on the field count fails, or fp.write
\* raises ValueError on a closed file
add_entry_raises(w, entry) ==
    \/ Len(entry) # Len(w.header)
    \/ w.fps[w.file_idx_next_row + 1].closed

\* add_entry without the advance of file_idx_next_row
add_entry_no_advance(w, entry) ==
    IF add_entry_raises(w, entry)
    THEN w
    ELSE [w EXCEPT !.fps[w.file_idx_next_row + 1].rows = Append(@, _make_row(entry))]

\* add_entry with the advance of file_idx_next_row made before the checks
add_entry_advance_first(w, entry) ==
    IF add_entry_raises(w, entry)
    THEN [w EXCEPT !.file_idx_next_row = (w.file_idx_next_row + 1) % w.num_files]
    ELSE [w EXCEPT !.fps[w.file_idx_next_row + 1].rows = Append(@, _make_row(entry)),
                   !.file_idx_next_row = (w.file_idx_next_row + 1) % w.num_files]

\* the writer after add_entry(entry); an exception leaves it as it was
add_entry(w, entry) ==
    IF add_entry_raises(w, entry)
    THEN w
    ELSE [w EXCEPT !.fps[w.file_idx_next_row + 1].rows = Append(@, _make_row(entry)),
                   !.file_idx_next_row = (w.file_idx_next_row + 1) % w.num_files]

\* the writer after add_entries(entries), the entries add_entry accepted and
\* whether one of the calls raised (the loop stops there)
RECURSIVE add_entries(_, _)
add_entries(w, entries) ==
    IF entries = <<>> THEN [w |-> w, accepted |-> <<>>, raised |-> FALSE]
    ELSE IF add_entry_raises(w, Head(entries))
    THEN [w |-> add_entry(w, Head(entries)), accepted |-> <<>>, raised |-> TRUE]
    ELSE LET r == add_entries(add_entry(w, Head(entries)), Tail(entries))
         IN  [r EXCEPT !.accepted = <<Head(entries)>> \o @]

close(w) == [w EXCEPT !.fps = [i \in DOMAIN w.fps |-> [w.fps[i] EXCEPT !.closed = TRUE]]]

AllClosed(w) == \A i \in DOMAIN w.fps : w.fps[i].closed

----------------------------------------------------------------------------
(* The script: the statements of __main__ *)

Init ==
    /\ pc = "start"
    /\ num_connected_components \in 1..MaxComponents
    /\ iter = 0
    /\ num_entities = 0
    /\ adj = <<>>
    /\ adj_assigned = <<>>
    /\ links = <<>>
    /\ next_entity_offset = 0
    /\ next_doc_offset = 0
    /\ documents_writer = NoWriter
    /\ entities_writer = NoWriter
    /\ links_writer = NoWriter
    /\ call = [op |-> "none"]
    /\ submitted = <<>>

\* the three BatchWriter constructions and the two offsets set to 0
ConstructWriters ==
    /\ pc = "start"
    /\ documents_writer' = BatchWriter(num_documents_files, documents_header)
    /\ entities_writer' = BatchWriter(num_entities_files, entities_header)
    /\ links_writer' = BatchWriter(num_links_files, links_header)
    /\ next_entity_offset' = 0
    /\ next_doc_offset' = 0
    /\ call' = [op |-> "BatchWriter"]
    /\ pc' = "loop"
    /\ UNCHANGED <<num_connected_components, iter, num_entities, adj, adj_assigned,
                   links, submitted>>

\* num_entities = int(stats.expon.rvs(0, exp_scale)); assert num_entities > 0
\* Samples: the values the truncated sample takes
SampleSize(Samples) ==
    /\ pc = "loop"
    /\ iter < num_connected_components
    /\ \E s \in Samples :
        /\ num_entities' = s
        /\ call' = [op |-> "expon.rvs", value |-> s]
        /\ pc' = IF s > 0 THEN "make" ELSE "failed"
    /\ UNCHANGED <<num_connected_components, iter, adj, adj_assigned, links,
                   next_entity_offset, next_doc_offset, documents_writer,
                   entities_writer, links_writer, submitted>>

\* adj = make_connected_component(num_entities)
\* Rnds: the outcomes of the random attachment choices
MakeConnectedComponent(Rnds) ==
    /\ pc = "make"
    /\ IF num_entities > 0
       THEN \E rnd \in Rnds :
               /\ adj' = make_connected_component(num_entities, rnd)
               /\ call' = [op |-> "make_connected_component",
                           num_nodes |-> num_entities, rnd |-> rnd]
               /\ pc' = "assign"
       ELSE /\ adj' = adj
            /\ call' = [op |-> "make_connected_component",
                        num_nodes |-> num_entities, rnd |-> <<>>]
            /\ pc' = "failed"
    /\ UNCHANGED <<num_connected_components, iter, num_entities, adj_assigned, links,
                   next_entity_offset, next_doc_offset, documents_writer,
                   entities_writer, links_writer, submitted>>

\* adj_assigned, next_entity_offset = assign_entity_ids(adj, next_entity_offset)
AssignEntityIds ==
    /\ pc = "assign"
    /\ call' = [op |-> "assign_entity_ids", adj |-> adj, offset |-> next_entity_offset]
    /\ IF next_entity_offset >= 0
       THEN /\ adj_assigned' = assign_entity_ids(adj, next_entity_offset).adj_assigned
            /\ next_entity_offset' = assign_entity_ids(adj, next_entity_offset).next
            /\ pc' = "insert"
       ELSE /\ UNCHANGED <<adj_assigned, next_entity_offset>>
            /\ pc' = "failed"
    /\ UNCHANGED <<num_connected_components, iter, num_entities, adj, links,
                   next_doc_offset, documents_writer, entities_writer, links_writer,
                   submitted>>

\* links, next_doc_offset = insert_documents(adj_assigned, next_doc_offset)
\* Outcomes: the document counts a draw gives
InsertDocuments(Outcomes) ==
    /\ pc = "insert"
    /\ \E draws \in [1..Len(Edges(adj_assigned)) -> Outcomes] :
        LET r == insert_documents(adj_assigned, next_doc_offset, draws)
        IN  /\ call' = [op |-> "insert_documents", adj |-> adj_assigned,
                        doc_id_offset |-> next_doc_offset, draws |-> draws]
            /\ IF r.raised
               THEN /\ UNCHANGED <<links, next_doc_offset>>
                    /\ pc' = "failed"
               ELSE /\ links' = r.links
                    /\ next_doc_offset' = r.current_doc_index
                    /\ pc' = "write_entities"
    /\ UNCHANGED <<num_connected_components, iter, num_entities, adj, adj_assigned,
                   next_entity_offset, documents_writer, entities_writer, links_writer,
                   submitted>>

\* entities_writer.add_entries(make_entities(adj_assigned))
WriteEntities ==
    /\ pc = "write_entities"
    /\ \E order \in IterationOrders(entity_ids(adj_assigned)) :
        LET r == add_entries(entities_writer, make_entities(adj_assigned, order))
        IN  /\ entities_writer' = r.w
            /\ submitted' = submitted \o r.accepted
            /\ call' = [op |-> "add_entries", entries |-> make_entities(adj_assigned, order)]
            /\ pc' = IF r.raised THEN "failed" ELSE "write_documents"
    /\ UNCHANGED <<num_connected_components, iter, num_entities, adj, adj_assigned,
                   links, next_entity_offset, next_doc_offset, documents_writer,
                   links_writer>>

\* documents_writer.add_entries(make_documents(links))
WriteDocuments ==
    /\ pc = "write_documents"
    /\ \E order \in IterationOrders(document_ids(links)) :
        LET r == add_entries(documents_writer, make_documents(links, order))
        IN  /\ documents_writer' = r.w
            /\ call' = [op |-> "add_entries", entries |-> make_documents(links, order)]
            /\ pc' = IF r.raised THEN "failed" ELSE "write_links"
    /\ UNCHANGED <<num_connected_components, iter, num_entities, adj, adj_assigned,
                   links, next_entity_offset, next_doc_offset, entities_writer,
                   links_writer, submitted>>

\* links_writer.add_entries(links), the end of a loop iteration
WriteLinks ==
    /\ pc = "write_links"
    /\ LET r == add_entries(links_writer, links)
       IN  /\ links_writer' = r.w
           /\ call' = [op |-> "add_entries", entries |-> links]
           /\ pc' = IF r.raised THEN "failed" ELSE "loop"
           /\ iter' = IF r.raised THEN iter ELSE iter + 1
    /\ UNCHANGED <<num_connected_components, num_entities, adj, adj_assigned, links,
                   next_entity_offset, next_doc_offset, documents_writer,
                   entities_writer, submitted>>

\* the three close() calls after the loop
CloseWriters ==
    /\ pc = "loop"
    /\ iter = num_connected_components
    /\ documents_writer' = close(documents_writer)
    /\ entities_writer' = close(entities_writer)
    /\ links_writer' = close(links_writer)
    /\ call' = [op |-> "close"]
    /\ pc' = "config"
    /\ UNCHANGED <<num_connected_components, iter, num_entities, adj, adj_assigned,
                   links, next_entity_offset, next_doc_offset, submitted>>

\* the config file and the skip-entities file: nothing of the state changes
WriteConfig ==
    /\ pc = "config"
    /\ call' = [op |-> "write_config_json"]
    /\ pc' = "done"
    /\ UNCHANGED <<num_connected_components, iter, num_entities, adj, adj_assigned,
                   links, next_entity_offset, next_doc_offset, documents_writer,
                   entities_writer, links_writer, submitted>>

\* a run of up to MaxComponents components of up to MaxSample entities and
\* up to MaxDocs documents on an edge
Next ==
    \/ ConstructWriters
    \/ SampleSize(0..MaxSample)
    \/ MakeConnectedComponent(AttachmentChoices(num_entities))
    \/ AssignEntityIds
    \/ InsertDocuments({k \in num_docs_outcomes : k <= MaxDocs})
    \/ WriteEntities
    \/ WriteDocuments
    \/ WriteLinks
    \/ CloseWriters
    \/ WriteConfig

Spec == Init /\ [][Next]_vars

----------------------------------------------------------------------------
(* The functions on their own: each is called once on an input of a bounded
   set.  The action is the statement of the script that makes the call. *)

\* the destination lists and the items of the adjacency inputs
DstsInputs == UNION {[1..k -> 0..MaxNodeId] : k \in 0..MaxEdges}
ItemInputs == [src : 0..MaxNodeId, dsts : DstsInputs]

\* adjacency dicts over local indices: distinct keys, any destinations
AdjInputs ==
    UNION {{a \in [1..k -> ItemInputs] :
               /\ \A i, j \in 1..k : i # j => a[i].src # a[j].src
               /\ Len(Edges(a)) <= MaxEdges} : k \in 0..MaxKeys}

\* the same dicts keyed by entity IDs
EntityAdjInputs ==
    {[i \in DOMAIN a |->
        [src |-> make_entity_id(a[i].src),
         dsts |-> [j \in DOMAIN a[i].dsts |-> make_entity_id(a[i].dsts[j])]]] : a \in AdjInputs}

Idle ==
    /\ num_connected_components = 1
    /\ iter = 0
    /\ documents_writer = NoWriter
    /\ entities_writer = NoWriter
    /\ links_writer = NoWriter
    /\ call = [op |-> "none"]
    /\ submitted = <<>>

InitComponent ==
    /\ Idle
    /\ pc = "make"
    /\ num_entities \in (-1)..MaxNodes
    /\ adj = <<>>
    /\ adj_assigned = <<>>
    /\ links = <<>>
    /\ next_entity_offset = 0
    /\ next_doc_offset = 0

NextComponent == MakeConnectedComponent(AttachmentChoices(num_entities))

SpecComponent == InitComponent /\ [][NextComponent]_vars

InitAssign ==
    /\ Idle
    /\ pc = "assign"
    /\ num_entities = 0
    /\ adj \in AdjInputs
    /\ adj_assigned = <<>>
    /\ links = <<>>
    /\ next_entity_offset \in (-1)..MaxOffset
    /\ next_doc_offset = 0

NextAssign == AssignEntityIds

SpecAssign == InitAssign /\ [][NextAssign]_vars

InitInsert ==
    /\ Idle
    /\ pc = "insert"
    /\ num_entities = 0
    /\ adj = <<>>
    /\ adj_assigned \in EntityAdjInputs
    /\ links = <<>>
    /\ next_entity_offset = 0
    /\ next_doc_offset \in {0, MaxOffset}

NextInsert == InsertDocuments(num_docs_outcomes)

SpecInsert == InitInsert /\ [][NextInsert]_vars

----------------------------------------------------------------------------
(* BatchWriter on its own: a writer of 1..MaxFiles files with the entities
   header takes any sequence of add_entry, add_entries and close calls. *)

\* records of the right and of a wrong field count
EntryInputs ==
    {<<"e-0", "Entity e-0">>, <<"e-1", "Entity e-1">>,
     <<"e-0">>, <<"e-0", "Entity e-0", "02/01/2023">>}

EntriesInputs == UNION {[1..k -> EntryInputs] : k \in 0..2}

InitWriter ==
    /\ pc = "writer"
    /\ num_connected_components = 1
    /\ iter = 0
    /\ num_entities = 0
    /\ adj = <<>>
    /\ adj_assigned = <<>>
    /\ links = <<>>
    /\ next_entity_offset = 0
    /\ next_doc_offset = 0
    /\ documents_writer = NoWriter
    /\ links_writer = NoWriter
    /\ entities_writer \in {BatchWriter(n, entities_header) : n \in 1..MaxFiles}
    /\ call = [op |-> "BatchWriter"]
    /\ submitted = <<>>

AddEntry ==
    /\ pc = "writer"
    /\ Len(submitted) < MaxRecords
    /\ \E entry \in EntryInputs :
        /\ entities_writer' = add_entry(entities_writer, entry)
        /\ submitted' = IF add_entry_raises(entities_writer, entry)
                        THEN submitted ELSE Append(submitted, entry)
        /\ call' = [op |-> "add_entry", entry |-> entry]
    /\ UNCHANGED <<pc, num_connected_components, iter, num_entities, adj, adj_assigned,
                   links, next_entity_offset, next_doc_offset, documents_writer,
                   links_writer>>

AddEntries ==
    /\ pc = "writer"
    /\ \E entries \in EntriesInputs :
        /\ Len(submitted) + Len(entries) <= MaxRecords
        /\ entities_writer' = add_entries(entities_writer, entries).w
        /\ submitted' = submitted \o add_entries(entities_writer, entries).accepted
        /\ call' = [op |-> "add_entries", entries |-> entries]
    /\ UNCHANGED <<pc, num_connected_components, iter, num_entities, adj, adj_assigned,
                   links, next_entity_offset, next_doc_offset, documents_writer,
                   links_writer>>

Close ==
    /\ pc = "writer"
    /\ entities_writer' = close(entities_writer)
    /\ call' = [op |-> "close"]
    /\ UNCHANGED <<pc, num_connected_components, iter, num_entities, adj, adj_assigned,
                   links, next_entity_offset, next_doc_offset, documents_writer,
                   links_writer, submitted>>

NextWriter == AddEntry \/ AddEntries \/ Close

SpecWriter == InitWriter /\ [][NextWriter]_vars

----------------------------------------------------------------------------
(* The end-to-end scenario: one component of 4 entities, the attachments
   1->0, 2->0, 3->1 and one document on every edge.  The iteration orders
   of the two sets stay free. *)

InitScenario == Init /\ num_connected_components = 1

NextScenario ==
    \/ ConstructWriters
    \/ SampleSize({4})
    \/ MakeConnectedComponent({<<0, 0, 1>>})
    \/ AssignEntityIds
    \/ InsertDocuments({1})
    \/ WriteEntities
    \/ WriteDocuments
    \/ WriteLinks
    \/ CloseWriters
    \/ WriteConfig

SpecScenario == InitScenario /\ [][NextScenario]_vars

----------------------------------------------------------------------------
(* Properties of a run (Spec) *)

\* the entity IDs written to the entities files, in submission order
WrittenEntityIds == [k \in DOMAIN submitted |-> submitted[k][1]]

\* C1: over a run of any number of components no entity ID is given to nodes
\* of two components: every entity ID is written once to the entities output.
C1_EntityIdsWrittenOnce ==
    \A i, j \in DOMAIN WrittenEntityIds :
        i # j => WrittenEntityIds[i] # WrittenEntityIds[j]

\* C4: a run that fails after the writers were constructed ends with every
\* shard file closed.
C4_ClosedOnFailure ==
    pc = "failed" =>
        /\ AllClosed(documents_writer)
        /\ AllClosed(entities_writer)
        /\ AllClosed(links_writer)

\* C5: no value sampled for a component size makes the run abort: the sample
\* is made strictly positive before make_connected_component is called.
C5_SampleNeverAborts ==
    /\ ~(pc = "failed" /\ call.op = "expon.rvs")
    /\ pc = "make" => num_entities > 0

----------------------------------------------------------------------------
(* Properties of assign_entity_ids (SpecAssign) *)

\* the local indices appearing as a source or as a destination
LocalIndices(a) == UNION {{a[i].src} \cup Range(a[i].dsts) : i \in DOMAIN a}

\* C2: the next offset returned is offset + (max local index + 1), and so
\* exceeds every global index (local index + offset) just assigned.
C2_NextOffset ==
    (pc = "insert" /\ call.op = "assign_entity_ids" /\ call.adj # <<>>) =>
        /\ \E m \in LocalIndices(call.adj) :
              /\ \A i \in LocalIndices(call.adj) : i <= m
              /\ next_entity_offset = call.offset + (m + 1)
        /\ \A i \in LocalIndices(call.adj) : next_entity_offset > i + call.offset

----------------------------------------------------------------------------
(* Properties of the end-to-end scenario (SpecScenario) *)

EntityRow(n) == _make_row(<<make_entity_id(n), "Entity " \o make_entity_id(n)>>)

\* C10: the scenario yields the 4 entity rows in ID order, e-0 and e-2 in
\* shard 0 and e-1 and e-3 in shard 1, and 6 link rows split 3/3.
C10_ScenarioOutput ==
    pc = "done" =>
        /\ entities_writer.fps[1].rows =
              <<_make_row(entities_header), EntityRow(0), EntityRow(2)>>
        /\ entities_writer.fps[2].rows =
              <<_make_row(entities_header), EntityRow(1), EntityRow(3)>>
        /\ Len(links_writer.fps[1].rows) = 1 + 3
        /\ Len(links_writer.fps[2].rows) = 1 + 3

----------------------------------------------------------------------------
(* Properties of make_connected_component (SpecComponent) *)

\* the node reached from node by following at most k attachments
RECURSIVE Ancestor(_, _, _)
Ancestor(a, k, node) ==
    IF k = 0 \/ a[node + 1].dsts = <<>> THEN node
    ELSE Ancestor(a, k - 1, a[node + 1].dsts[1])

\* C9: for n > 0 the result has the nodes 0..n-1 and n-1 edges, node 0 has
\* no predecessor, every node i >= 1 attaches to exactly one node lower than
\* i, and every node reaches node 0.
C9_Tree ==
    (call.op = "make_connected_component" /\ call.num_nodes > 0) =>
        /\ pc = "assign"
        /\ Len(adj) = call.num_nodes
        /\ \A i \in 1..Len(adj) : adj[i].src = i - 1
        /\ Len(Edges(adj)) = call.num_nodes - 1
        /\ adj[1].dsts = <<>>
        /\ \A i \in 2..Len(adj) :
              /\ Len(adj[i].dsts) = 1
              /\ adj[i].dsts[1] \in 0..(adj[i].src - 1)
        /\ \A i \in 1..Len(adj) : Ancestor(adj, Len(adj), adj[i].src) = 0

\* a component of 4 nodes that is neither a star nor a chain
C9_Witness ==
    /\ pc = "assign"
    /\ call.op = "make_connected_component"
    /\ call.num_nodes = 4
    /\ adj[2].dsts = <<0>>
    /\ adj[3].dsts = <<0>>
    /\ adj[4].dsts = <<2>>

----------------------------------------------------------------------------
(* Properties of insert_documents (SpecInsert) *)

\* C6: the document count sampled for an edge is one of 1..5 and never 0,
\* whatever the multinomial draw gives: "assert num_docs > 0" never fails.
C6_DocCountPositive ==
    call.op = "insert_documents" =>
        /\ pc # "failed"
        /\ \A e \in DOMAIN call.draws : call.draws[e] \in 1..5

\* two edges, the smallest and the largest count
C6_Witness ==
    /\ call.op = "insert_documents"
    /\ Len(call.draws) = 2
    /\ call.draws[1] = 1
    /\ call.draws[2] = 5

\* the positions of the links that reference document d
LinksOf(d) == {i \in DOMAIN links : links[i][2] = d}

\* C7: insert_documents returns 2 * (sum of the sampled counts) links, every
\* document ID is referenced by exactly two links, one to each endpoint of
\* an edge, and the next offset is the start offset plus the number of
\* documents allocated.
C7_TwoLinksPerDocument ==
    (pc = "write_entities" /\ call.op = "insert_documents") =>
        /\ Len(links) = 2 * Sum(call.draws)
        /\ Cardinality(document_ids(links)) = Sum(call.draws)
        /\ next_doc_offset = call.doc_id_offset + Cardinality(document_ids(links))
        /\ \A d \in document_ids(links) :
              /\ Cardinality(LinksOf(d)) = 2
              /\ \E e \in Range(Edges(call.adj)) : \E i, j \in LinksOf(d) :
                    i # j /\ links[i][1] = e[1] /\ links[j][1] = e[2]

\* two edges between different entities, three documents on one of them
C7_Witness ==
    /\ pc = "write_entities"
    /\ call.op = "insert_documents"
    /\ call.doc_id_offset = MaxOffset
    /\ Len(call.draws) = 2
    /\ call.draws[1] = 3
    /\ Len(links) = 8
    /\ links[1][1] # links[2][1]

----------------------------------------------------------------------------
(* Properties of BatchWriter (SpecWriter) *)

\* the rows of the accepted records whose 0-based submission index k has
\* k mod n = j, in submission order
ShardRows(j, n) ==
    LET m == Len(submitted)
        count == IF m > j THEN (m - j + n - 1) \div n ELSE 0
    IN  [i \in 1..count |-> _make_row(submitted[(i - 1) * n + j + 1])]

\* C3: file j holds, after its header, the accepted records whose 0-based
\* submission index k has k mod N = j, in submission order, and two file
\* sizes differ by at most 1 after every prefix of submissions.
C3_RoundRobin ==
    pc = "writer" =>
        LET n == entities_writer.num_files
        IN  /\ \A j \in 0..(n - 1) :
                  entities_writer.fps[j + 1].rows =
                      <<_make_row(entities_writer.header)>> \o ShardRows(j, n)
            /\ \A j1, j2 \in 1..n :
                  Len(entities_writer.fps[j1].rows) - Len(entities_writer.fps[j2].rows) \in {-1, 0, 1}

\* three records in two files, after a call that raised on its last entry
C3_Witness ==
    /\ pc = "writer"
    /\ entities_writer.num_files = 2
    /\ Len(submitted) = 3
    /\ submitted[1] # submitted[2]
    /\ call.op = "add_entries"
    /\ Len(call.entries) = 2
    /\ Len(call.entries[2]) # Len(entities_writer.header)

\* C8: add_entry with a record of a wrong field count leaves the writer as it
\* was, no row appended and the next-file index not advanced, and an accepted
\* record goes to the file the index named before the call.
C8_RejectedEntryLeavesWriter ==
    [][(pc = "writer" /\ call'.op = "add_entry") =>
          IF Len(call'.entry) # Len(entities_writer.header)
          THEN entities_writer' = entities_writer /\ submitted' = submitted
          ELSE ~entities_writer.fps[entities_writer.file_idx_next_row + 1].closed =>
                  entities_writer'.fps[entities_writer.file_idx_next_row + 1].rows =
                      Append(entities_writer.fps[entities_writer.file_idx_next_row + 1].rows,
                             _make_row(call'.entry))]_vars

\* a record of a wrong field count was rejected by a writer of several
\* files after one record was accepted
C8_Witness ==
    /\ pc = "writer"
    /\ call.op = "add_entry"
    /\ Len(call.entry) # Len(entities_writer.header)
    /\ entities_writer.num_files > 1
    /\ Len(submitted) = 1
    /\ entities_writer.file_idx_next_row = 1
    /\ ~AllClosed(entities_writer)

====
